---- MODULE Spec2Model ----
(***************************************************************************)
(* Model of the stitcher Lambda (src/lambdas/stitcher/handler.py): manifest *)
(* parsing, chunk result discovery and loading, the two-pass segment merge  *)
(* and the JSON/TXT/VTT/SRT renderers, driven by handler().                 *)
(*                                                                         *)
(* Time is an integer number of microseconds (1 s = 1000000), so EPS = 1e-6 *)
(* is 1, a millisecond is 1000 and round(x, 3) is rounding to a multiple of *)
(* 1000.  A text is a sequence of one-character strings.                    *)
(***************************************************************************)
EXTENDS Integers, Sequences, FiniteSets, TLC

\* ------------------------------------------------------------------ bounds
\* Largest number of lines of a manifest.
MaxWindows == 2
\* Largest number of raw segment records read from chunk results in one run.
MaxRaw == 3

\* ---------------------------------------------------------------- tunables
OVERLAP_SEC == 1000000
MIN_SEGMENT_SEC == 60000
EPS == 1
DEDUP_FLOOR == 2000000
DEDUP_SIM_THRESH == 85

Max(a, b) == IF a >= b THEN a ELSE b
Min(a, b) == IF a <= b THEN a ELSE b

DEDUP_BACK_WINDOW == Max(OVERLAP_SEC, DEDUP_FLOOR)

\* round(x, 3): nearest millisecond, a tie going to the even millisecond.
Round3(x) ==
    LET q == x \div 1000
        r == x % 1000
    IN  IF r < 500 THEN q * 1000
        ELSE IF r > 500 THEN (q + 1) * 1000
        ELSE IF q % 2 = 0 THEN q * 1000 ELSE (q + 1) * 1000

\* -------------------------------------------------------------------- text
\* "".join(t)
RECURSIVE Str(_)
Str(t) == IF t = <<>> THEN "" ELSE Head(t) \o Str(Tail(t))

RECURSIVE LStrip(_)
LStrip(t) == IF t # <<>> /\ Head(t) = " " THEN LStrip(Tail(t)) ELSE t

RECURSIVE RStrip(_)
RStrip(t) ==
    IF t # <<>> /\ t[Len(t)] = " " THEN RStrip(SubSeq(t, 1, Len(t) - 1)) ELSE t

\* str.strip()
Strip(t) == RStrip(LStrip(t))

\* Length of the common prefix of a[i..ahi] and b[j..bhi].
RECURSIVE MatchLen(_, _, _, _, _, _)
MatchLen(a, i, ahi, b, j, bhi) ==
    IF i > ahi \/ j > bhi \/ a[i] # b[j] THEN 0
    ELSE 1 + MatchLen(a, i + 1, ahi, b, j + 1, bhi)

\* SequenceMatcher.find_longest_match: the longest common block of a[alo..ahi]
\* and b[blo..bhi]; among the longest the one starting earliest in a, then
\* earliest in b.  <<i, j, k>> with k = 0 when there is none.
LongestMatch(a, alo, ahi, b, blo, bhi) ==
    LET cand == { <<i, j, MatchLen(a, i, ahi, b, j, bhi)>> :
                      i \in alo..ahi, j \in blo..bhi }
        Better(x, y) == \/ x[3] > y[3]
                        \/ x[3] = y[3] /\ x[1] < y[1]
                        \/ x[3] = y[3] /\ x[1] = y[1] /\ x[2] <= y[2]
    IN  IF cand = {} THEN <<alo, blo, 0>>
        ELSE CHOOSE x \in cand : \A y \in cand : Better(x, y)

\* Sum of the sizes of SequenceMatcher.get_matching_blocks(): the longest
\* block, then recursively the pieces to its left and to its right.
RECURSIVE MatchTotal(_, _, _, _, _, _)
MatchTotal(a, alo, ahi, b, blo, bhi) ==
    IF alo > ahi \/ blo > bhi THEN 0
    ELSE LET m == LongestMatch(a, alo, ahi, b, blo, bhi)
         IN  IF m[3] = 0 THEN 0
             ELSE m[3]
                  + MatchTotal(a, alo, m[1] - 1, b, blo, m[2] - 1)
                  + MatchTotal(a, m[1] + m[3], ahi, b, m[2] + m[3], bhi)

\* _similar(a, b) >= DEDUP_SIM_THRESH, with ratio() = 2*M/T (1.0 when T = 0)
\* and the threshold in hundredths.
Similar(a, b) ==
    LET T == Len(a) + Len(b)
        M == MatchTotal(a, 1, Len(a), b, 1, Len(b))
    IN  IF T = 0 THEN TRUE ELSE 200 * M >= DEDUP_SIM_THRESH * T

\* ------------------------------------------------------------------- inputs
HelloWorld == <<"h", "e", "l", "l", "o", " ", "w", "o", "r", "l", "d">>
HelloWorlds == HelloWorld \o <<"s">>
HelloThere == <<"h", "e", "l", "l", "o", " ", "t", "h", "e", "r", "e">>
HiPadded == <<" ", "H", "i", " ">>

\* The raw segments a chunk result may hold (chunk-relative microseconds).
RawPool ==
    { [start |-> 598500000, end |-> 599800000, text |-> HelloWorld],
      [start |-> 100000, end |-> 1300000, text |-> HelloWorld],
      [start |-> 0, end |-> 1500000, text |-> HiPadded],
      [start |-> 599000000, end |-> 599060400, text |-> HelloWorld],
      [start |-> 1250400, end |-> 1359400, text |-> HelloThere],
      [start |-> 599900000, end |-> 600300000, text |-> HelloWorlds],
      [start |-> 2000000, end |-> 2000001, text |-> HiPadded],
      [start |-> 500000, text |-> <<" ", " ">>] }

\* The texts the merge compares, and the verdict of Similar on each pair,
\* computed once.
PoolTexts == { Strip(IF "text" \in DOMAIN r THEN r.text ELSE <<>>) : r \in RawPool }

SimilarMemo == [a \in PoolTexts, b \in PoolTexts |-> Similar(a, b)]

\* ---------------------------------------------------- manifest (JSONL) parsing
\* A manifest line is blank or holds a JSON object, a record of its keys.
BlankLine == [kind |-> "blank"]
JsonLine(o) == [kind |-> "json", obj |-> o]

ManifestKeys == <<"index", "start_sec", "end_sec">>

\* Stable insertion of e after the entries whose index is not larger.
InsertByIndex(sorted, e) ==
    LET k == Cardinality({ i \in 1..Len(sorted) : sorted[i].index <= e.index })
    IN  SubSeq(sorted, 1, k) \o <<e>> \o SubSeq(sorted, k + 1, Len(sorted))

\* entries.sort(key=lambda x: x["index"]): stable, ascending.
RECURSIVE SortByIndex(_)
SortByIndex(es) ==
    IF es = <<>> THEN <<>>
    ELSE InsertByIndex(SortByIndex(SubSeq(es, 1, Len(es) - 1)), es[Len(es)])

\* The loop of _parse_manifest_jsonl: blank lines are skipped, obj["..."] of
\* an absent key raises KeyError, every other record is normalized and kept
\* without further checks.
RECURSIVE ParseLines(_)
ParseLines(lines) ==
    IF lines = <<>> THEN [ok |-> TRUE, entries |-> <<>>]
    ELSE LET l == Head(lines)
             rest == ParseLines(Tail(lines))
         IN  IF l.kind = "blank" THEN rest
             ELSE IF \E i \in 1..3 : ManifestKeys[i] \notin DOMAIN l.obj
                  THEN [ok |-> FALSE, entries |-> <<>>]
             ELSE IF ~rest.ok THEN rest
             ELSE [ok |-> TRUE,
                   entries |-> <<[index |-> l.obj.index,
                                  start_sec |-> l.obj.start_sec,
                                  end_sec |-> l.obj.end_sec]>> \o rest.entries]

ParseManifestJsonl(lines) ==
    LET p == ParseLines(lines)
    IN  IF p.ok THEN [ok |-> TRUE, entries |-> SortByIndex(p.entries)] ELSE p

\* ------------------------------------------------- result discovery (S3 keys)
JobId == "job1"

\* An S3 key is the sequence of its "/"-separated components.
RECURSIVE KeyStr(_)
KeyStr(k) ==
    IF Len(k) = 1 THEN k[1] ELSE k[1] \o "/" \o KeyStr(Tail(k))

RECURSIVE ZeroPad(_, _)
ZeroPad(s, w) == IF Len(s) >= w THEN s ELSE ZeroPad("0" \o s, w)

\* f"{index:05d}": the sign counts in the width.
Pad5(n) == IF n < 0 THEN "-" \o ZeroPad(ToString(-n), 4) ELSE ZeroPad(ToString(n), 5)

PaddedKey(job, index) == <<"chunks", job, Pad5(index), "out.json">>
UnpaddedKey(job, index) == <<"chunks", job, ToString(index), "out.json">>
RootKey(job) == <<"chunks", job, "out.json">>

\* The canonical keys with the unpadded one tried first.
ExactKeysUnpaddedFirst(job, index) == <<UnpaddedKey(job, index), PaddedKey(job, index)>>

\* "exact = [...]": the canonical keys in the order they are probed.
ExactKeys(job, index) == <<PaddedKey(job, index), UnpaddedKey(job, index)>>

\* What the results bucket holds around one chunk index: the objects that
\* exist, the keys whose HEAD fails with an error that is not a 404, and
\* whether listing fails.
StoreViews(job, index) ==
    [objects : SUBSET { PaddedKey(job, index), UnpaddedKey(job, index),
                        <<"chunks", job, Pad5(index), "out.txt">>, RootKey(job) },
     denied : SUBSET { PaddedKey(job, index), UnpaddedKey(job, index) },
     listDenied : BOOLEAN]

\* S3.head_object: "200", "404", or another failure.
HeadObject(store, key) ==
    IF key \in store.denied THEN "403"
    ELSE IF key \in store.objects THEN "200" ELSE "404"

\* _s3_key_exists: True, False on not-found, anything else is re-raised.
S3KeyExistsSwallow(store, key) ==
    IF HeadObject(store, key) = "200" THEN "true" ELSE "false"

S3KeyExists(store, key) ==
    LET r == HeadObject(store, key)
    IN  IF r = "200" THEN "true" ELSE IF r = "404" THEN "false" ELSE "raise"

\* list_objects_v2(Prefix="chunks/{job}/", Delimiter="/")["CommonPrefixes"]
CommonPrefixes(store, job) ==
    { SubSeq(k, 1, 3) : k \in { o \in store.objects :
                                  Len(o) > 3 /\ o[1] = "chunks" /\ o[2] = job } }

\* The probes of a list of keys in order: the first that exists, "none"
\* when none does, "raise" as soon as a probe fails.
RECURSIVE FirstExisting(_, _)
FirstExisting(store, keys) ==
    IF keys = <<>> THEN [outcome |-> "none", key |-> <<>>]
    ELSE LET e == S3KeyExists(store, Head(keys))
         IN  IF e = "raise" THEN [outcome |-> "raise", key |-> <<>>]
             ELSE IF e = "true" THEN [outcome |-> "found", key |-> Head(keys)]
             ELSE FirstExisting(store, Tail(keys))

\* _guess_chunk_key: the two canonical keys, then the listed sub-prefixes
\* whose leaf is the index.
GuessChunkKey(store, job, index) ==
    LET exact == FirstExisting(store, ExactKeys(job, index))
        leaves == <<Pad5(index), ToString(index)>>
        listed == { p \in CommonPrefixes(store, job) :
                        p[3] = leaves[1] \/ p[3] = leaves[2] }
        cands == SelectSeq(<<<<"chunks", job, leaves[1]>>, <<"chunks", job, leaves[2]>>>>,
                           LAMBDA p : p \in listed)
        keys == [i \in 1..Len(cands) |-> Append(cands[i], "out.json")]
    IN  IF exact.outcome # "none" THEN exact
        ELSE IF store.listDenied THEN [outcome |-> "raise", key |-> <<>>]
        ELSE FirstExisting(store, keys)

\* ------------------------------------------------------ chunk result loading
\* A raw segment of a chunk result is a record of the keys it has.
GetOr(s, k, default) == IF k \in DOMAIN s THEN s[k] ELSE default

\* The body of the normalizing loop of _load_chunk_segments: absent start or
\* end is 0.0, absent text is "", text is stripped; a segment with empty text
\* or with end - start <= EPS is left out.
NormalizeSegment(s) ==
    LET start == GetOr(s, "start", 0)
        end == GetOr(s, "end", 0)
        text == Strip(GetOr(s, "text", <<>>))
    IN  [keep |-> text # <<>> /\ ~(end - start <= EPS),
         seg |-> [start |-> start, end |-> end, text |-> text]]

RECURSIVE LoadChunkSegments(_)
LoadChunkSegments(segs) ==
    IF segs = <<>> THEN <<>>
    ELSE LET n == NormalizeSegment(Head(segs))
         IN  (IF n.keep THEN <<n.seg>> ELSE <<>>) \o LoadChunkSegments(Tail(segs))

\* ------------------------------------------------------------ overlap resolver
\* "if ge < c_start + EPS or gs > c_end - EPS: continue"
ClampDiscard(gs, ge, c_start, c_end) == ge < c_start + EPS \/ gs > c_end - EPS

\* The backward scan over merged[k], k = len(merged)-1 .. 0, while
\* merged[k]["start"] >= gs - DEDUP_BACK_WINDOW; TRUE when it meets a
\* similar text.
\* A scan that compares the candidate with merged[k] only and goes no
\* further back.
ScanBackLastOnly(mg, k, gs, text) ==
    /\ k >= 1
    /\ mg[k].start >= gs - DEDUP_BACK_WINDOW
    /\ SimilarMemo[mg[k].text, text]

RECURSIVE ScanBack(_, _, _, _)
ScanBack(mg, k, gs, text) ==
    IF k >= 1 /\ mg[k].start >= gs - DEDUP_BACK_WINDOW
    THEN IF SimilarMemo[mg[k].text, text] THEN TRUE
         ELSE ScanBack(mg, k - 1, gs, text)
    ELSE FALSE

IsTextDup(mg, gs, text) == ScanBack(mg, Len(mg), gs, text)

\* "if ge <= last_end + EPS"
IsTimeDup(ge, lastEnd) == ge <= lastEnd + EPS

\* "if gs < last_end: gs = last_end" in the first pass and
\* "if s < last: s = last" in the repair pass.
NoTrimLeft(x, lastEnd) == x

TrimLeft(x, lastEnd) == IF x < lastEnd THEN lastEnd ELSE x

\* "ge - gs < MIN_SEGMENT_SEC" in the first pass and "e - s < MIN_SEGMENT_SEC"
\* in the repair pass.  The operands are binary floats: when the difference
\* is exactly MIN_SEGMENT_SEC the comparison comes out either way, as tie
\* says (600.06 - 600.0 < 0.06 holds, 1.36 - 1.3 < 0.06 does not).
TooShortNegativeOnly(s, e, tie) == e - s < 0

TooShort(s, e, tie) ==
    IF e - s = MIN_SEGMENT_SEC THEN tie ELSE e - s < MIN_SEGMENT_SEC

\* The first pass without "ge = min(ge, c_end)".
ResolveEndUnclamped(mg, lastEnd, c_start, c_end, s, tie) ==
    LET gs0 == s.start + c_start
        ge0 == s.end + c_start
        gs1 == Max(gs0, c_start)
        gs2 == TrimLeft(gs1, lastEnd)
    IN  IF ClampDiscard(gs0, ge0, c_start, c_end)
        THEN [verdict |-> "clamp", clamped |-> gs0, gs |-> gs0, ge |-> ge0]
        ELSE IF IsTextDup(mg, gs1, s.text)
        THEN [verdict |-> "dup_text", clamped |-> gs1, gs |-> gs1, ge |-> ge0]
        ELSE IF IsTimeDup(ge0, lastEnd)
        THEN [verdict |-> "dup_time", clamped |-> gs1, gs |-> gs1, ge |-> ge0]
        ELSE IF TooShort(gs2, ge0, tie)
        THEN [verdict |-> "short", clamped |-> gs1, gs |-> gs2, ge |-> ge0]
        ELSE [verdict |-> "accept", clamped |-> gs1, gs |-> gs2, ge |-> ge0]

\* The first pass with the minimum-duration rule tried before the two
\* duplicate rules.
ResolveShortFirst(mg, lastEnd, c_start, c_end, s, tie) ==
    LET gs0 == s.start + c_start
        ge0 == s.end + c_start
        gs1 == Max(gs0, c_start)
        ge == Min(ge0, c_end)
        gs2 == TrimLeft(gs1, lastEnd)
    IN  IF ClampDiscard(gs0, ge0, c_start, c_end)
        THEN [verdict |-> "clamp", clamped |-> gs0, gs |-> gs0, ge |-> ge0]
        ELSE IF TooShort(gs2, ge, tie)
        THEN [verdict |-> "short", clamped |-> gs1, gs |-> gs2, ge |-> ge]
        ELSE IF IsTextDup(mg, gs1, s.text)
        THEN [verdict |-> "dup_text", clamped |-> gs1, gs |-> gs1, ge |-> ge]
        ELSE IF IsTimeDup(ge, lastEnd)
        THEN [verdict |-> "dup_time", clamped |-> gs1, gs |-> gs1, ge |-> ge]
        ELSE [verdict |-> "accept", clamped |-> gs1, gs |-> gs2, ge |-> ge]

\* What the first pass does with one loaded segment s of the window
\* [c_start, c_end]: the rule that decides it, the start after the clamp, and
\* the span [gs, ge] at the point of the decision.
Resolve(mg, lastEnd, c_start, c_end, s, tie) ==
    LET gs0 == s.start + c_start
        ge0 == s.end + c_start
        gs1 == Max(gs0, c_start)
        ge == Min(ge0, c_end)
        gs2 == TrimLeft(gs1, lastEnd)
    IN  IF ClampDiscard(gs0, ge0, c_start, c_end)
        THEN [verdict |-> "clamp", clamped |-> gs0, gs |-> gs0, ge |-> ge0]
        ELSE IF IsTextDup(mg, gs1, s.text)
        THEN [verdict |-> "dup_text", clamped |-> gs1, gs |-> gs1, ge |-> ge]
        ELSE IF IsTimeDup(ge, lastEnd)
        THEN [verdict |-> "dup_time", clamped |-> gs1, gs |-> gs1, ge |-> ge]
        ELSE IF TooShort(gs2, ge, tie)
        THEN [verdict |-> "short", clamped |-> gs1, gs |-> gs2, ge |-> ge]
        ELSE [verdict |-> "accept", clamped |-> gs1, gs |-> gs2, ge |-> ge]

\* --------------------------------------------------------------- repair pass
\* The iteration below, keeping the first-pass id.
RepairOneKeepId(fx, lastv, seg, tie) ==
    LET s1 == TrimLeft(seg.start, lastv)
        s2 == IF s1 - lastv > 0 THEN Max(lastv, s1) ELSE s1
        e == seg.end
    IN  IF TooShort(s2, e, tie) THEN [keep |-> FALSE, fixed |-> fx, last |-> lastv]
        ELSE [keep |-> TRUE,
              fixed |-> Append(fx, [id |-> seg.id, start |-> Round3(s2),
                                    end |-> Round3(e), text |-> seg.text]),
              last |-> e]

\* One iteration of the second loop of _merge_segments over seg, with the
\* list built so far and the cursor last: keep tells whether seg is emitted.
RepairOne(fx, lastv, seg, tie) ==
    LET s1 == TrimLeft(seg.start, lastv)
        s2 == IF s1 - lastv > 0 THEN Max(lastv, s1) ELSE s1
        e == seg.end
    IN  IF TooShort(s2, e, tie) THEN [keep |-> FALSE, fixed |-> fx, last |-> lastv]
        ELSE [keep |-> TRUE,
              fixed |-> Append(fx, [id |-> Len(fx), start |-> Round3(s2),
                                    end |-> Round3(e), text |-> seg.text]),
              last |-> e]

\* ------------------------------------------------------------------ renderers
RECURSIVE JoinLines(_, _)
JoinLines(lines, sep) ==
    IF lines = <<>> THEN ""
    ELSE IF Len(lines) = 1 THEN lines[1]
    ELSE lines[1] \o sep \o JoinLines(Tail(lines), sep)

\* int(round(s * 1000)): s in seconds to whole milliseconds.
ToMillis(s) == Round3(s) \div 1000

Pad2(n) == ZeroPad(ToString(n), 2)
Pad3(n) == ZeroPad(ToString(n), 3)

\* The arithmetic of both formatters on ms = int(round(s * 1000)), with the
\* minutes taken from the total instead of from what the hours leave.
HmsOfMillisNoHourCarry(ms0) ==
    LET hours == ms0 \div 3600000
        minutes == ms0 \div 60000
        ms2 == ms0 - hours * 3600000 - (minutes % 60) * 60000
        seconds == ms2 \div 1000
        ms3 == ms2 - seconds * 1000
    IN  [h |-> hours, m |-> minutes, s |-> seconds, ms |-> ms3]

\* The arithmetic of both formatters on ms = int(round(s * 1000)).
HmsOfMillis(ms0) ==
    LET hours == ms0 \div 3600000
        ms1 == ms0 - hours * 3600000
        minutes == ms1 \div 60000
        ms2 == ms1 - minutes * 60000
        seconds == ms2 \div 1000
        ms3 == ms2 - seconds * 1000
    IN  [h |-> hours, m |-> minutes, s |-> seconds, ms |-> ms3]

\* f"{hours:02d}:{minutes:02d}:{seconds:02d}.{ms:03d}" and the same with ",".
StampVtt(ms0) ==
    LET f == HmsOfMillis(ms0)
    IN  Pad2(f.h) \o ":" \o Pad2(f.m) \o ":" \o Pad2(f.s) \o "." \o Pad3(f.ms)

StampSrt(ms0) ==
    LET f == HmsOfMillis(ms0)
    IN  Pad2(f.h) \o ":" \o Pad2(f.m) \o ":" \o Pad2(f.s) \o "," \o Pad3(f.ms)

HmsFields(s) == HmsOfMillis(ToMillis(s))

SecToHhmmssMsecVtt(s) == StampVtt(ToMillis(s))

SecToHhmmssMsecSrt(s) == StampSrt(ToMillis(s))

ToTranscriptJson(job, language, segments) ==
    [job_id |-> job, language |-> language,
     duration_sec |-> IF segments # <<>> THEN segments[Len(segments)].end ELSE 0,
     segments |-> segments]

ToTxtNoFinalNewline(segments) ==
    JoinLines([i \in 1..Len(segments) |-> Str(segments[i].text)], "\n")

ToTxt(segments) ==
    JoinLines([i \in 1..Len(segments) |-> Str(segments[i].text)], "\n")
        \o (IF segments # <<>> THEN "\n" ELSE "")

RECURSIVE VttLines(_)
VttLines(segments) ==
    IF segments = <<>> THEN <<>>
    ELSE << SecToHhmmssMsecVtt(Head(segments).start) \o " --> "
                \o SecToHhmmssMsecVtt(Head(segments).end),
            Str(Head(segments).text), "" >> \o VttLines(Tail(segments))

ToVtt(segments) == JoinLines(<<"WEBVTT", "">> \o VttLines(segments), "\n")

RECURSIVE SrtParts(_, _)
SrtParts(segments, i) ==
    IF segments = <<>> THEN <<>>
    ELSE << ToString(i),
            SecToHhmmssMsecSrt(Head(segments).start) \o " --> "
                \o SecToHhmmssMsecSrt(Head(segments).end),
            Str(Head(segments).text), "" >> \o SrtParts(Tail(segments), i + 1)

ToSrt(segments) == JoinLines(SrtParts(segments, 1), "\n")

\* ------------------------------------------------------------------- inputs
\* The manifest lines a run may read: the two windows of a 1200 s recording
\* cut at 600 s with 1 s of overlap, a record with a negative index and
\* end_sec < start_sec, a record without end_sec, and a blank line.
LinePool ==
    { JsonLine([index |-> 0, start_sec |-> 0, end_sec |-> 600000000]),
      JsonLine([index |-> 1, start_sec |-> 599000000, end_sec |-> 1200000000]),
      JsonLine([index |-> -1, start_sec |-> 5000000, end_sec |-> 2000000]),
      JsonLine([index |-> 1, start_sec |-> 599000000]),
      BlankLine }

RECURSIVE SeqsUpTo(_, _)
SeqsUpTo(S, n) ==
    IF n = 0 THEN { <<>> }
    ELSE LET shorter == SeqsUpTo(S, n - 1)
         IN  shorter \cup { Append(q, x) : q \in shorter, x \in S }

ManifestTexts == SeqsUpTo(LinePool, MaxWindows)

Language == "en"
Artifacts == <<"json", "txt", "vtt", "srt">>

\* --------------------------------------------------------------------- state
VARIABLES
    pc,            \* position of handler()
    manifest,      \* the parsed manifest
    wi,            \* position of the merge loop in the manifest (1-based)
    chunk_key,     \* key of the chunk result being merged
    nraw,          \* raw segment records of the current chunk still to come
    budget,        \* raw segment records the run may still read
    merged, seg_id, last_end, meta,      \* first pass of _merge_segments
    ri, fixed, last,                     \* repair pass of _merge_segments
    payloads,      \* tjson, ttxt, tvtt, tsrt
    written,       \* artifacts put so far, in order
    effects,       \* side effects issued so far, in order
    result,        \* what handler() returned or raised
    src,           \* history: for each entry of merged, its window and segment
    fixedSrc,      \* history: the same for each entry of fixed
    loaded,        \* history: manifest positions whose result was loaded
    skipped,       \* history: manifest positions whose result was not found
    fault,         \* history: a chunk probe or read failed other than not-found
    echoed,        \* history: entries of merged whose text the next chunk repeated
    tally,         \* history: raw records read, loaded as valid, discarded by
                   \*          the clamp, and dropped by the repair pass
    lastStep,      \* history: what the latest first-pass step decided, and on
                   \*          which candidate [gs0, ge0]
    frame          \* the call under way: handler(), or a function run on its own

vars == << pc, manifest, wi, chunk_key, nraw, budget, merged, seg_id,
           last_end, meta, ri, fixed, last, payloads, written, effects, result,
           src, fixedSrc, loaded, skipped, fault, echoed, tally, lastStep,
           frame >>

mergeVars == << merged, seg_id, last_end, meta, src, echoed >>
repairVars == << ri, fixed, last, fixedSrc >>
outVars == << payloads, written, effects >>

\* Everything but frame: the state of handler(), untouched while another
\* function runs on its own.
handlerVars == << pc, manifest, wi, chunk_key, nraw, budget, mergeVars,
                  repairVars, outVars, result, loaded, skipped, fault,
                  tally, lastStep >>

NoStep == [verdict |-> "none"]
NoPayloads == [made |-> FALSE]
HandlerFrame == [fn |-> "handler"]

\* The locals of handler() and _merge_segments before their first statement.
Fresh ==
    /\ pc = "read_manifest"
    /\ manifest = <<>>
    /\ wi = 1
    /\ chunk_key = <<>>
    /\ nraw = 0
    /\ budget = MaxRaw
    /\ merged = <<>>
    /\ seg_id = 0
    /\ last_end = 0
    /\ meta = [chunks |-> 0, dropped_short |-> 0, dropped_overlap |-> 0]
    /\ ri = 1
    /\ fixed = <<>>
    /\ last = 0
    /\ payloads = NoPayloads
    /\ written = <<>>
    /\ effects = <<>>
    /\ result = [kind |-> "running"]
    /\ src = <<>>
    /\ fixedSrc = <<>>
    /\ loaded = {}
    /\ skipped = {}
    /\ fault = FALSE
    /\ echoed = {}
    /\ tally = [raw |-> 0, valid |-> 0, clamp |-> 0, repair |-> 0]
    /\ lastStep = NoStep

Init == Fresh /\ frame = HandlerFrame

\* An exception leaves handler(): what it is and the call it came from.
Raise(what, from) ==
    /\ pc' = "raised"
    /\ result' = [kind |-> "raised", error |-> what, from |-> from]

\* handler step 1: _read_s3_text(manifest_bucket, manifest_key) raises.
ReadManifestFail ==
    /\ pc = "read_manifest"
    /\ Raise("ClientError", "_read_s3_text")
    /\ UNCHANGED << frame, manifest, wi, chunk_key, nraw, budget, mergeVars,
                    repairVars, outVars, loaded, skipped, fault, lastStep, tally >>

\* handler step 1: the manifest is read and parsed, whatever lines it holds;
\* a record without a required key raises out of the handler.
ParseManifestOf(lines) ==
    /\ pc = "read_manifest"
    /\ LET p == ParseManifestJsonl(lines)
       IN  IF p.ok
           THEN /\ manifest' = p.entries
                /\ pc' = "window"
                /\ UNCHANGED result
           ELSE /\ Raise("KeyError", "_parse_manifest_jsonl")
                /\ UNCHANGED manifest
    /\ UNCHANGED << frame, wi, chunk_key, nraw, budget, mergeVars,
                    repairVars, outVars, loaded, skipped, fault, lastStep, tally >>

ParseManifest == \E lines \in ManifestTexts : ParseManifestOf(lines)

\* A request of _guess_chunk_key got an answer that is neither success nor
\* not-found: the HEAD of the padded key, then of the unpadded key, then the
\* listing (the later HEADs repeat the first two).
ProbeFault(store, job, index) ==
    LET hp == HeadObject(store, PaddedKey(job, index))
        hu == HeadObject(store, UnpaddedKey(job, index))
    IN  \/ hp = "403"
        \/ hp = "404" /\ hu = "403"
        \/ hp = "404" /\ hu = "404" /\ store.listDenied

InWindowLoop == pc = "window" /\ wi <= Len(manifest)

\* _guess_chunk_key raises: the error leaves _merge_segments and handler.
ProbeRaisesIn(store) ==
    /\ InWindowLoop
    /\ GuessChunkKey(store, JobId, manifest[wi].index).outcome = "raise"
    /\ fault' = (fault \/ ProbeFault(store, JobId, manifest[wi].index))
    /\ Raise("ClientError", "_guess_chunk_key")
    /\ UNCHANGED << frame, manifest, wi, chunk_key, nraw, budget, mergeVars,
                    repairVars, outVars, loaded, skipped, lastStep, tally >>

ProbeRaises ==
    /\ InWindowLoop
    /\ \E store \in StoreViews(JobId, manifest[wi].index) : ProbeRaisesIn(store)

\* "if not chunk_key: continue", with the skipped window counted as a chunk.
SkipMissingChunkCounted ==
    /\ InWindowLoop
    /\ \E store \in StoreViews(JobId, manifest[wi].index) :
          /\ GuessChunkKey(store, JobId, manifest[wi].index).outcome = "none"
          /\ fault' = (fault \/ ProbeFault(store, JobId, manifest[wi].index))
    /\ meta' = [meta EXCEPT !.chunks = @ + 1]
    /\ skipped' = skipped \cup { wi }
    /\ wi' = wi + 1
    /\ UNCHANGED << frame, pc, manifest, chunk_key, nraw, budget, merged,
                    seg_id, last_end, src, echoed, repairVars, outVars, result,
                    loaded, lastStep, tally >>

\* "if not chunk_key: continue": no result for this window, on to the next.
SkipMissingChunkIn(store) ==
    /\ InWindowLoop
    /\ GuessChunkKey(store, JobId, manifest[wi].index).outcome = "none"
    /\ fault' = (fault \/ ProbeFault(store, JobId, manifest[wi].index))
    /\ skipped' = skipped \cup { wi }
    /\ wi' = wi + 1
    /\ UNCHANGED << frame, pc, manifest, chunk_key, nraw, budget, mergeVars,
                    repairVars, outVars, result, loaded, lastStep, tally >>

SkipMissingChunk ==
    /\ InWindowLoop
    /\ \E store \in StoreViews(JobId, manifest[wi].index) : SkipMissingChunkIn(store)

\* _guess_chunk_key found the result of this window.
FoundChunkIn(store) ==
    /\ InWindowLoop
    /\ LET g == GuessChunkKey(store, JobId, manifest[wi].index)
       IN  /\ g.outcome = "found"
           /\ chunk_key' = g.key
           /\ fault' = (fault \/ ProbeFault(store, JobId, manifest[wi].index))
    /\ pc' = "load"
    /\ UNCHANGED << frame, manifest, wi, nraw, budget, mergeVars,
                    repairVars, outVars, result, loaded, skipped, lastStep, tally >>

FoundChunk ==
    /\ InWindowLoop
    /\ \E store \in StoreViews(JobId, manifest[wi].index) : FoundChunkIn(store)

\* _load_chunk_segments raises (the read fails, or the body is not the JSON
\* expected): the error leaves _merge_segments and handler.
LoadChunkFail ==
    /\ pc = "load"
    /\ fault' = TRUE
    /\ Raise("ClientError", "_load_chunk_segments")
    /\ UNCHANGED << frame, manifest, wi, chunk_key, nraw, budget, mergeVars,
                    repairVars, outVars, loaded, skipped, lastStep, tally >>

\* _load_chunk_segments returns; the chunk result holds n raw records, which
\* the steps below read one at a time.
LoadChunkOf(n) ==
    /\ pc = "load"
    /\ n <= budget
    /\ nraw' = n
    /\ budget' = budget - n
    /\ loaded' = loaded \cup { wi }
    /\ pc' = "segs"
    /\ UNCHANGED << frame, manifest, wi, chunk_key, mergeVars,
                    repairVars, outVars, result, skipped, fault, lastStep, tally >>

LoadChunk == \E n \in 0..budget : LoadChunkOf(n)

\* The overlap region of the windows at manifest positions p and p + 1.
OverlapRegion(mf, p) == [lo |-> mf[p + 1].start_sec, hi |-> mf[p].end_sec]

Touches(start, end, region) == start <= region.hi /\ end >= region.lo

\* The entries of merged that came from the window just before position w,
\* the chunk of the previous index, lie in the overlap region of the two
\* windows, and carry the text of a candidate [gs, ge] of window w that lies
\* in that region too.
Echoes(mf, w, ld, mg, sr, gs, ge, text) ==
    IF w = 1 \/ (w - 1) \notin ld THEN {}
    ELSE IF mf[w].index # mf[w - 1].index + 1 THEN {}
    ELSE IF mf[w].start_sec >= mf[w - 1].end_sec THEN {}
    ELSE { k \in 1..Len(mg) :
              /\ sr[k].w = w - 1
              /\ mg[k].text = text
              /\ Touches(mg[k].start, mg[k].end, OverlapRegion(mf, w - 1))
              /\ Touches(gs, ge, OverlapRegion(mf, w - 1)) }

\* The counters with a clamp discard counted as an overlap drop.
CountDropClampToo(mt, verdict) ==
    IF verdict \in { "clamp", "dup_text", "dup_time" }
    THEN [mt EXCEPT !.dropped_overlap = @ + 1]
    ELSE IF verdict = "short"
    THEN [mt EXCEPT !.dropped_short = @ + 1]
    ELSE mt

\* The counters after a rejection: meta["dropped_overlap"] += 1 for either
\* duplicate, meta["dropped_short"] += 1 for a short one, nothing for a
\* clamp discard.
CountDrop(mt, verdict) ==
    IF verdict \in { "dup_text", "dup_time" }
    THEN [mt EXCEPT !.dropped_overlap = @ + 1]
    ELSE IF verdict = "short"
    THEN [mt EXCEPT !.dropped_short = @ + 1]
    ELSE mt

\* One raw record of the current chunk: left out by the loader's filter, or
\* one iteration of "for s in segs".
ProcessSegmentOn(raw, tie) ==
    /\ pc = "segs"
    /\ nraw > 0
    /\ nraw' = nraw - 1
    /\    LET n == NormalizeSegment(raw)
              w == manifest[wi]
              r == Resolve(merged, last_end, w.start_sec, w.end_sec, n.seg, tie)
          IN  IF ~n.keep
              THEN /\ lastStep' = [verdict |-> "filtered"]
                   /\ tally' = [tally EXCEPT !.raw = @ + 1]
                   /\ UNCHANGED mergeVars
              ELSE /\ lastStep' = [verdict |-> r.verdict, clamped |-> r.clamped,
                                   gs |-> r.gs, ge |-> r.ge, text |-> n.seg.text,
                                   gs0 |-> n.seg.start + w.start_sec,
                                   ge0 |-> n.seg.end + w.start_sec]
                   /\ tally' = [tally EXCEPT !.raw = @ + 1, !.valid = @ + 1,
                                 !.clamp = IF r.verdict = "clamp" THEN @ + 1 ELSE @]
                   /\ echoed' = echoed \cup
                         (IF r.verdict = "clamp" THEN {}
                          ELSE Echoes(manifest, wi, loaded, merged, src,
                                      r.clamped, r.ge, n.seg.text))
                   /\ IF r.verdict = "accept"
                      THEN /\ merged' = Append(merged,
                                  [id |-> seg_id, start |-> Round3(r.gs),
                                   end |-> Round3(r.ge), text |-> n.seg.text])
                           /\ seg_id' = seg_id + 1
                           /\ last_end' = r.ge
                           /\ src' = Append(src, [w |-> wi, seg |-> n.seg])
                           /\ UNCHANGED meta
                      ELSE /\ meta' = CountDrop(meta, r.verdict)
                           /\ UNCHANGED << frame, merged, seg_id, last_end, src >>
    /\ UNCHANGED << frame, pc, manifest, wi, chunk_key, budget,
                    repairVars, outVars, result, loaded, skipped, fault >>

ProcessSegment == \E raw \in RawPool, tie \in BOOLEAN : ProcessSegmentOn(raw, tie)

\* End of "for s in segs": meta["chunks"] += 1 and the next window.
EndChunk ==
    /\ pc = "segs"
    /\ nraw = 0
    /\ meta' = [meta EXCEPT !.chunks = @ + 1]
    /\ wi' = wi + 1
    /\ chunk_key' = <<>>
    /\ lastStep' = NoStep
    /\ pc' = "window"
    /\ UNCHANGED << frame, manifest, nraw, budget, merged, seg_id, last_end, src, echoed,
                    repairVars, outVars, result, loaded, skipped, fault, tally >>

\* End of "for entry in manifest": the repair pass starts.
BeginRepair ==
    /\ pc = "window"
    /\ wi > Len(manifest)
    /\ pc' = "repair"
    /\ budget' = 0
    /\ UNCHANGED << frame, manifest, wi, chunk_key, nraw, mergeVars,
                    repairVars, outVars, result, loaded, skipped, fault, lastStep, tally >>

\* One iteration of "for seg in merged".
RepairStepOn(tie) ==
    /\ pc = "repair"
    /\ ri <= Len(merged)
    /\    LET r == RepairOne(fixed, last, merged[ri], tie)
          IN  /\ fixed' = r.fixed
              /\ last' = r.last
              /\ fixedSrc' = IF r.keep THEN Append(fixedSrc, src[ri]) ELSE fixedSrc
              /\ tally' = IF r.keep THEN tally ELSE [tally EXCEPT !.repair = @ + 1]
    /\ ri' = ri + 1
    /\ UNCHANGED << frame, pc, manifest, wi, chunk_key, nraw, budget, mergeVars,
                    outVars, result, loaded, skipped, fault, lastStep >>

RepairStep == \E tie \in BOOLEAN : RepairStepOn(tie)

\* _merge_segments returns (fixed, meta); handler step 3 builds the payloads.
Render ==
    /\ pc = "repair"
    /\ ri > Len(merged)
    /\ payloads' = [made |-> TRUE,
                    tjson |-> ToTranscriptJson(JobId, Language, fixed),
                    ttxt |-> ToTxt(fixed),
                    tvtt |-> ToVtt(fixed),
                    tsrt |-> ToSrt(fixed)]
    /\ pc' = "put"
    /\ UNCHANGED << frame, manifest, wi, chunk_key, nraw, budget, mergeVars,
                    repairVars, written, effects, result, loaded, skipped, fault,
                    lastStep, tally >>

\* handler step 4: the next _put_s3_bytes, in the order json, txt, vtt, srt.
PutArtifact ==
    /\ pc = "put"
    /\ Len(written) < Len(Artifacts)
    /\ written' = Append(written, Artifacts[Len(written) + 1])
    /\ UNCHANGED << frame, pc, manifest, wi, chunk_key, nraw, budget, mergeVars,
                    repairVars, payloads, effects, result, loaded, skipped, fault,
                    lastStep, tally >>

\* A _put_s3_bytes raises.
PutArtifactFail ==
    /\ pc = "put"
    /\ Len(written) < Len(Artifacts)
    /\ Raise("ClientError", "_put_s3_bytes")
    /\ UNCHANGED << frame, manifest, wi, chunk_key, nraw, budget, mergeVars,
                    repairVars, outVars, loaded, skipped, fault, lastStep, tally >>

\* The status update issued as soon as the first artifact is written.
UpdateJobStatusEarly ==
    /\ pc = "put"
    /\ Len(written) >= 1
    /\ \E configured \in BOOLEAN :
          effects' = IF configured THEN Append(effects, "status:COMPLETED") ELSE effects
    /\ pc' = "notify"
    /\ UNCHANGED << frame, manifest, wi, chunk_key, nraw, budget, mergeVars,
                    repairVars, payloads, written, result, loaded, skipped, fault,
                    lastStep, tally >>

\* handler step 5: _update_job_status(job_id, "COMPLETED", outputs); a no-op
\* when no table is configured.
UpdateJobStatus ==
    /\ pc = "put"
    /\ Len(written) = Len(Artifacts)
    /\ \E configured \in BOOLEAN :
          effects' = IF configured THEN Append(effects, "status:COMPLETED") ELSE effects
    /\ pc' = "notify"
    /\ UNCHANGED << frame, manifest, wi, chunk_key, nraw, budget, mergeVars,
                    repairVars, payloads, written, result, loaded, skipped, fault,
                    lastStep, tally >>

\* table.update_item raises.
UpdateJobStatusFail ==
    /\ pc = "put"
    /\ Len(written) = Len(Artifacts)
    /\ Raise("ClientError", "_update_job_status")
    /\ UNCHANGED << frame, manifest, wi, chunk_key, nraw, budget, mergeVars,
                    repairVars, outVars, loaded, skipped, fault, lastStep, tally >>

\* handler step 5: _notify(job_id, "COMPLETED", outputs, meta), a no-op when
\* no topic is configured; then handler returns its summary.
Notify ==
    /\ pc = "notify"
    /\ \E configured \in BOOLEAN :
          effects' = IF configured THEN Append(effects, "notify:COMPLETED") ELSE effects
    /\ result' = [kind |-> "returned", job_id |-> JobId,
                  segments |-> Len(fixed), meta |-> meta]
    /\ pc' = "done"
    /\ UNCHANGED << frame, manifest, wi, chunk_key, nraw, budget, mergeVars,
                    repairVars, payloads, written, loaded, skipped, fault,
                    lastStep, tally >>

\* SNS.publish raises.
NotifyFail ==
    /\ pc = "notify"
    /\ Raise("ClientError", "_notify")
    /\ UNCHANGED << frame, manifest, wi, chunk_key, nraw, budget, mergeVars,
                    repairVars, outVars, loaded, skipped, fault, lastStep, tally >>

Next ==
    \/ ReadManifestFail
    \/ ParseManifest
    \/ ProbeRaises
    \/ SkipMissingChunk
    \/ FoundChunk
    \/ LoadChunkFail
    \/ LoadChunk
    \/ ProcessSegment
    \/ EndChunk
    \/ BeginRepair
    \/ RepairStep
    \/ Render
    \/ PutArtifact
    \/ PutArtifactFail
    \/ UpdateJobStatus
    \/ UpdateJobStatusFail
    \/ Notify
    \/ NotifyFail

Spec == Init /\ [][Next]_vars

TypeOK ==
    /\ pc \in { "read_manifest", "window", "load", "segs", "repair", "put",
                "notify", "done", "raised" }
    /\ Len(src) = Len(merged)
    /\ Len(fixedSrc) = Len(fixed)

\* ====================================================================== claims
\* _merge_segments has returned: handler holds its (segments, meta).
MergeReturned == payloads.made

\* C1: in the sequence returned by _merge_segments, for all consecutive
\* segments i and i+1: starts do not decrease, segment i+1 starts at or after
\* the end of segment i, and ends do not retreat.
C1_Monotone ==
    MergeReturned =>
        \A i \in 1..(Len(fixed) - 1) :
            /\ fixed[i].start <= fixed[i + 1].start
            /\ fixed[i + 1].start >= fixed[i].end
            /\ fixed[i].end <= fixed[i + 1].end

\* C1 witness: a returned sequence of three segments, one of them left-trimmed
\* onto the end of its predecessor and one after a gap.
C1_Witness ==
    /\ MergeReturned
    /\ Len(fixed) = 3
    /\ \E i \in 1..2 : /\ fixed[i + 1].start = fixed[i].end
                       /\ fixedSrc[i + 1].seg.start
                              + manifest[fixedSrc[i + 1].w].start_sec < fixed[i].end
    /\ \E i \in 1..2 : fixed[i + 1].start > fixed[i].end

\* C2: every segment of the returned sequence has end - start >=
\* MIN_SEGMENT_SEC on the emitted, millisecond-rounded values.
C2_MinDuration ==
    MergeReturned =>
        \A i \in 1..Len(fixed) : fixed[i].end - fixed[i].start >= MIN_SEGMENT_SEC

\* C2 witness: a returned sequence that keeps a segment of exactly
\* MIN_SEGMENT_SEC after a candidate was dropped as too short.
C2_Witness ==
    /\ MergeReturned
    /\ meta.dropped_short >= 1
    /\ \E i \in 1..Len(fixed) : fixed[i].end - fixed[i].start = MIN_SEGMENT_SEC

\* The final segments with the text of merged[k] that lie in the overlap
\* region of the window merged[k] came from and the next one.
CopiesInOverlap(k) ==
    { i \in 1..Len(fixed) :
          /\ fixed[i].text = merged[k].text
          /\ Touches(fixed[i].start, fixed[i].end, OverlapRegion(manifest, src[k].w)) }

\* C3 (the rule): a candidate whose text is similar to an accepted segment
\* with start >= gs - max(OVERLAP_SEC, 2.0), gs the candidate's clamped
\* start, is not emitted and adds one to dropped_overlap.
C3_DedupRule ==
    [][ ( /\ pc = "segs" /\ nraw' = nraw - 1
          /\ lastStep'.verdict \in { "dup_text", "dup_time", "short", "accept" }
          /\ \E k \in 1..Len(merged) :
                /\ merged[k].start >= lastStep'.clamped - Max(OVERLAP_SEC, 2000000)
                /\ Similar(merged[k].text, lastStep'.text) )
        => ( /\ merged' = merged
             /\ meta'.dropped_overlap = meta.dropped_overlap + 1
             /\ meta'.dropped_short = meta.dropped_short ) ]_vars

\* C3 (the consequence): when two consecutive chunks both transcribe the same
\* text inside their overlap region, the final sequence holds exactly one
\* such segment.
C3_ExactlyOneCopy ==
    MergeReturned => \A k \in echoed : Cardinality(CopiesInOverlap(k)) = 1

\* C3: the example of the specification (windows 0-600 and 599-1200, "hello
\* world" at 598.5-599.8 in chunk 0 and at 0.1-1.3 in chunk 1) ends with one
\* segment and one overlap drop.
C3_ExampleReached ==
    /\ MergeReturned
    /\ Len(fixed) = 1 /\ fixed[1].text = HelloWorld
    /\ fixed[1].start = 598500000 /\ fixed[1].end = 599800000
    /\ echoed = { 1 }
    /\ meta = [chunks |-> 2, dropped_short |-> 0, dropped_overlap |-> 1]

\* The merge loop has handled every window before position wi.
WindowsHandled == (loaded \cup skipped) = 1..(wi - 1) /\ loaded \cap skipped = {}

\* fixed[i] is what its source segment gives when offset by the start of its
\* own window: the text, the end clamped to the window, a start not before.
FromOwnWindow(i) ==
    LET w == manifest[fixedSrc[i].w]
        seg == fixedSrc[i].seg
    IN  /\ fixedSrc[i].w \in loaded
        /\ fixed[i].text = seg.text
        /\ fixed[i].end = Round3(Min(seg.end + w.start_sec, w.end_sec))
        /\ fixed[i].start >= Round3(Max(seg.start + w.start_sec, w.start_sec))
        /\ fixed[i].start >= w.start_sec - 500

\* C4: a window without a result is skipped without raising and the merge
\* carries on; meta's chunk counter is the number of windows whose result
\* was found and loaded; the final segments come only from those, each
\* offset by its own window start.
C4_MissingChunkTolerated ==
    /\ pc \in { "window", "repair", "put", "notify", "done" } =>
          /\ WindowsHandled
          /\ meta.chunks = Cardinality(loaded)
    /\ (pc = "raised" /\ skipped # {} /\ ~MergeReturned) => fault
    /\ MergeReturned =>
          /\ skipped = (1..Len(manifest)) \ loaded
          /\ \A i \in 1..Len(fixed) : FromOwnWindow(i)

\* C4 witness: the first window has no result, the second is loaded, and the
\* returned segment is the second chunk's, offset by 599 s.
C4_Witness ==
    /\ MergeReturned
    /\ skipped = { 1 } /\ loaded = { 2 }
    /\ meta.chunks = 1
    /\ Len(fixed) = 1
    /\ fixed[1].start = 599100000 /\ fixed[1].end = 600300000

\* C5: a storage failure other than not-found while probing or reading a
\* chunk result propagates out of _merge_segments and handler; no artifact
\* is written and no COMPLETED status update or notification is issued.
C5_ChunkFailureIsFatal ==
    fault =>
        /\ pc = "raised"
        /\ result.kind = "raised"
        /\ result.from \in { "_guess_chunk_key",  "_load_chunk_segments" }
        /\ ~MergeReturned
        /\ written = <<>>
        /\ effects = <<>>

\* C5 witness: the second window's probe fails after the first chunk was
\* merged.
C5_Witness ==
    /\ fault
    /\ result.kind = "raised" /\ result.from = "_guess_chunk_key"
    /\ loaded = { 1 } /\ merged # <<>>
    /\ wi = 2

\* C6: a manifest record with a missing field, a negative index or
\* end_sec <= start_sec is rejected before any chunk is merged: no such
\* window reaches the merge loop.
C6_ManifestValidated ==
    pc \in { "window", "load", "segs" } =>
        \A i \in 1..Len(manifest) :
            /\ manifest[i].index >= 0
            /\ manifest[i].end_sec > manifest[i].start_sec

\* What C7 says _to_vtt returns: "WEBVTT", a blank line, then per segment the
\* timing line, the text line and a blank line, every line newline-terminated.
RECURSIVE VttCuesTerminated(_)
VttCuesTerminated(segments) ==
    IF segments = <<>> THEN ""
    ELSE SecToHhmmssMsecVtt(Head(segments).start) \o " --> "
            \o SecToHhmmssMsecVtt(Head(segments).end) \o "\n"
            \o Str(Head(segments).text) \o "\n" \o "\n"
            \o VttCuesTerminated(Tail(segments))

\* C7: _to_vtt returns "WEBVTT\n\n" followed by the newline-terminated cues,
\* so "WEBVTT\n\n" for the empty sequence.
C7_VttLinesTerminated ==
    MergeReturned => payloads.tvtt = "WEBVTT" \o "\n" \o "\n" \o VttCuesTerminated(fixed)

\* What C8 says _to_srt returns: per segment the cue number from 1, the timing
\* line, the text line and a blank line, every line newline-terminated.
RECURSIVE SrtCuesTerminated(_, _)
SrtCuesTerminated(segments, i) ==
    IF segments = <<>> THEN ""
    ELSE ToString(i) \o "\n"
            \o SecToHhmmssMsecSrt(Head(segments).start) \o " --> "
            \o SecToHhmmssMsecSrt(Head(segments).end) \o "\n"
            \o Str(Head(segments).text) \o "\n" \o "\n"
            \o SrtCuesTerminated(Tail(segments), i + 1)

\* C8: _to_srt returns the newline-terminated cues, the empty string for the
\* empty sequence.
C8_SrtLinesTerminated ==
    MergeReturned => payloads.tsrt = SrtCuesTerminated(fixed, 1)

\* C9: the segment at position k of the returned sequence has id k,
\* k = 0..n-1, also when the repair pass dropped first-pass segments.
C9_DenseIds ==
    MergeReturned => \A k \in 1..Len(fixed) : fixed[k].id = k - 1

\* C9 witness: the repair pass dropped a first-pass segment and kept a later
\* one, whose first-pass id is larger than its final id.
C9_Witness ==
    /\ MergeReturned
    /\ tally.repair >= 1
    /\ Len(fixed) >= 1
    /\ fixed[Len(fixed)].end = merged[Len(merged)].end
    /\ fixed[Len(fixed)].id < merged[Len(merged)].id

\* One newline-terminated line per segment, in order.
RECURSIVE TextLines(_)
TextLines(segments) ==
    IF segments = <<>> THEN ""
    ELSE Str(Head(segments).text) \o "\n" \o TextLines(Tail(segments))

\* C10: with no window, or no valid segment in any chunk result found, the
\* returned sequence is empty; for the empty sequence the reported segment
\* count is 0, duration_sec is 0.0 and the TXT and SRT payloads are empty;
\* otherwise duration_sec is the last segment's end and TXT is one
\* newline-terminated line per segment.
C10_EmptyInput ==
    MergeReturned =>
        /\ (manifest = <<>> \/ loaded = {} \/ tally.valid = 0) => fixed = <<>>
        /\ fixed = <<>> =>
              /\ payloads.tjson.segments = <<>>
              /\ payloads.tjson.duration_sec = 0
              /\ payloads.ttxt = ""
              /\ payloads.tsrt = ""
              /\ pc = "done" => result.segments = 0
        /\ fixed # <<>> =>
              /\ payloads.tjson.duration_sec = fixed[Len(fixed)].end
              /\ payloads.ttxt = TextLines(fixed)

\* C10 witness: handler returned; one window had no result, the other a
\* result whose records were all left out by the loader; the transcript is
\* empty.
C10_Witness ==
    /\ pc = "done"
    /\ result.segments = 0
    /\ skipped # {} /\ loaded # {}
    /\ tally.raw >= 2 /\ tally.valid = 0
    /\ payloads.ttxt = "" /\ payloads.tjson.duration_sec = 0

\* ============================================== two invocations, one container
\* The Lambda container runs handler() twice on the same event, with the
\* same manifest and the same chunk results in the store.  What survives an
\* invocation is what the module keeps at top level: the clients and the
\* tunables, none of which an invocation assigns.

\* The result of a chunk index in the store: absent, unreadable, or present
\* with its raw segments.
TwiceRaws ==
    { r \in RawPool : /\ "end" \in DOMAIN r
                      /\ r.end \in { 599060400, 1300000, 600300000 } }

ChunkOutcomes ==
    { [kind |-> "missing", segs |-> <<>>], [kind |-> "denied", segs |-> <<>>] }
        \cup { [kind |-> "found", segs |-> q] : q \in SeqsUpTo(TwiceRaws, 1) }

\* The manifest text, the results by chunk index, and how the float
\* comparison with MIN_SEGMENT_SEC falls on a span of exactly that length in
\* each pass.
Worlds ==
    [lines : ManifestTexts,
     chunks : [{ 0, 1 } -> ChunkOutcomes],
     tie : [first : BOOLEAN, repair : BOOLEAN]]

ChunkAt(world, index) ==
    IF index \in DOMAIN world.chunks THEN world.chunks[index]
    ELSE [kind |-> "missing", segs |-> <<>>]

\* The view of the store that _guess_chunk_key gets for this chunk index.
StoreOf(world, job, index) ==
    LET c == ChunkAt(world, index)
    IN  [objects |-> IF c.kind = "found" THEN { PaddedKey(job, index) } ELSE {},
         denied |-> IF c.kind = "denied" THEN { PaddedKey(job, index) } ELSE {},
         listDenied |-> FALSE]

InitTwice ==
    /\ Fresh
    /\ frame \in { [fn |-> "twice", world |-> w, run |-> 1,
                    first |-> [made |-> FALSE]] : w \in Worlds }

TwiceParse == ParseManifestOf(frame.world.lines)

TwiceProbe ==
    /\ InWindowLoop
    /\ LET store == StoreOf(frame.world, JobId, manifest[wi].index)
       IN  \/ ProbeRaisesIn(store)
           \/ SkipMissingChunkIn(store)
           \/ FoundChunkIn(store)

TwiceLoad ==
    /\ pc = "load"
    /\ LoadChunkOf(Len(ChunkAt(frame.world, manifest[wi].index).segs))

TwiceSegment ==
    /\ pc = "segs"
    /\ nraw > 0
    /\ LET segs == ChunkAt(frame.world, manifest[wi].index).segs
       IN  ProcessSegmentOn(segs[Len(segs) - nraw + 1], frame.world.tie.first)

TwiceRepair == RepairStepOn(frame.world.tie.repair)

\* What an invocation leaves behind for the comparison.
Outcome ==
    [made |-> TRUE, result |-> result, fixed |-> fixed, meta |-> meta,
     payloads |-> payloads]

\* handler() is entered again: its locals and those of _merge_segments are
\* new, with the cursor of the first pass starting at cursor.
Enter(cursor) ==
    /\ pc' = "read_manifest"
    /\ manifest' = <<>>
    /\ wi' = 1
    /\ chunk_key' = <<>>
    /\ nraw' = 0
    /\ budget' = MaxRaw
    /\ merged' = <<>>
    /\ seg_id' = 0
    /\ last_end' = cursor
    /\ meta' = [chunks |-> 0, dropped_short |-> 0, dropped_overlap |-> 0]
    /\ ri' = 1
    /\ fixed' = <<>>
    /\ last' = 0
    /\ payloads' = NoPayloads
    /\ written' = <<>>
    /\ effects' = <<>>
    /\ result' = [kind |-> "running"]
    /\ src' = <<>>
    /\ fixedSrc' = <<>>
    /\ loaded' = {}
    /\ skipped' = {}
    /\ fault' = FALSE
    /\ echoed' = {}
    /\ tally' = [raw |-> 0, valid |-> 0, clamp |-> 0, repair |-> 0]
    /\ lastStep' = NoStep

\* The second invocation, with last_end kept from the first as if it were a
\* module-level variable.
ReinvokeWarm ==
    /\ frame.run = 1
    /\ pc \in { "put", "raised" }
    /\ frame' = [frame EXCEPT !.run = 2, !.first = Outcome]
    /\ Enter(last_end)

\* The first invocation is over (it built its payloads, or raised); the
\* second starts with "last_end = 0.0" like the first.
Reinvoke ==
    /\ frame.run = 1
    /\ pc \in { "put", "raised" }
    /\ frame' = [frame EXCEPT !.run = 2, !.first = Outcome]
    /\ Enter(0)

NextTwice ==
    \/ TwiceParse
    \/ TwiceProbe
    \/ TwiceLoad
    \/ TwiceSegment
    \/ EndChunk
    \/ BeginRepair
    \/ TwiceRepair
    \/ Render
    \/ Reinvoke

SpecTwice == InitTwice /\ [][NextTwice]_vars

MaxDurationSec == 7

\* Durations in microseconds: zero, a negative one, and around every half
\* second some that are whole milliseconds and some that are not.
Durations ==
    { -1000000 } \cup
    { k * 500000 + d : k \in 0..(2 * MaxDurationSec), d \in { 0, 400, 1600 } }

ChunkSecs == { 2, 3 }
OverlapSecs == { 0, 1, 2 }

\* math.ceil(a / b) for b > 0.
CeilDiv(a, b) == IF a % b = 0 THEN a \div b ELSE a \div b + 1

InitChunks ==
    /\ Fresh
    /\ frame \in { [fn |-> "compute_chunks", duration |-> d, chunk_sec |-> c,
                    overlap_sec |-> o, at |-> "entry", n |-> 0, i |-> 0,
                    windows |-> <<>>] :
                   d \in Durations, c \in ChunkSecs, o \in OverlapSecs }

\* "if duration <= 0: return []", else n = math.ceil(duration / chunk_sec).
ChunksEnter ==
    /\ frame.fn = "compute_chunks" /\ frame.at = "entry"
    /\ frame' = IF frame.duration <= 0
                THEN [frame EXCEPT !.at = "returned"]
                ELSE [frame EXCEPT !.at = "loop",
                         !.n = CeilDiv(frame.duration, frame.chunk_sec * 1000000)]
    /\ UNCHANGED handlerVars

\* One iteration of "for i in range(n)".
ChunksStep ==
    /\ frame.fn = "compute_chunks" /\ frame.at = "loop"
    /\ frame.i < frame.n
    /\ LET i == frame.i
           start == Max(0, (i * frame.chunk_sec
                              - (IF i > 0 THEN frame.overlap_sec ELSE 0)) * 1000000)
           end == Min(frame.duration, (i + 1) * frame.chunk_sec * 1000000)
       IN  frame' = [frame EXCEPT
                        !.i = i + 1,
                        !.windows = IF end <= start THEN @
                                    ELSE Append(@, [index |-> i,
                                                    start |-> Round3(start),
                                                    end |-> Round3(end)])]
    /\ UNCHANGED handlerVars

\* "return windows"
ChunksReturn ==
    /\ frame.fn = "compute_chunks" /\ frame.at = "loop"
    /\ frame.i = frame.n
    /\ frame' = [frame EXCEPT !.at = "returned"]
    /\ UNCHANGED handlerVars

NextChunks == ChunksEnter \/ ChunksStep \/ ChunksReturn

SpecChunks == InitChunks /\ [][NextChunks]_vars

ChunksReturned == frame.fn = "compute_chunks" /\ frame.at = "returned"

\* C12: for duration > 0 and 0 <= overlap_sec < chunk_sec, compute_chunks
\* returns N = ceil(duration / chunk_sec) windows with indices 0..N-1;
\* window 0 starts at 0, window i > 0 at i*chunk_sec - overlap_sec, window i
\* ends at min(duration, (i+1)*chunk_sec), every window has end > start, each
\* starts overlap_sec before the end of the one before, and the last ends at
\* duration; for duration <= 0 it returns no window.
C12_ComputeChunks ==
    ChunksReturned =>
        LET w == frame.windows
            c == frame.chunk_sec * 1000000
            o == frame.overlap_sec * 1000000
            N == CeilDiv(frame.duration, c)
        IN  /\ frame.duration <= 0 => w = <<>>
            /\ (frame.duration > 0 /\ frame.overlap_sec < frame.chunk_sec) =>
                  /\ Len(w) = N
                  /\ \A k \in 1..Len(w) :
                        /\ w[k].index = k - 1
                        /\ w[k].start = (IF k = 1 THEN 0 ELSE (k - 1) * c - o)
                        /\ w[k].end = Min(frame.duration, k * c)
                        /\ w[k].end > w[k].start
                        /\ k > 1 => w[k].start = w[k - 1].end - o
                  /\ w[Len(w)].end = frame.duration

\* C12 with the ends as the code rounds them: the parts of the statement
\* that do hold.
C12_UpToRounding ==
    ChunksReturned =>
        LET w == frame.windows
            c == frame.chunk_sec * 1000000
            o == frame.overlap_sec * 1000000
            N == CeilDiv(frame.duration, c)
        IN  /\ frame.duration <= 0 => w = <<>>
            /\ (frame.duration > 0 /\ frame.overlap_sec < frame.chunk_sec) =>
                  /\ Len(w) = N
                  /\ \A k \in 1..Len(w) :
                        /\ w[k].index = k - 1
                        /\ w[k].start = (IF k = 1 THEN 0 ELSE (k - 1) * c - o)
                        /\ w[k].end = Round3(Min(frame.duration, k * c))
                        /\ w[k].end >= w[k].start
                        /\ k > 1 => w[k].start = w[k - 1].end - o

\* ============================================ worker: s3io.py command line
\* Largest number of arguments after the program name.
MaxArgs == 4

\* An argument is its sequence of characters.
ArgGet == <<"g", "e", "t">>
ArgPut == <<"p", "u", "t">>
ArgDel == <<"d", "e", "l">>
ArgLocal == <<"o", "u", "t">>
UriGood == <<"s", "3", ":", "/", "/", "b", "/", "k">>
UriNoKey == <<"s", "3", ":", "/", "/", "b">>
UriEmptyKey == <<"s", "3", ":", "/", "/", "b", "/">>
UriNoBucket == <<"s", "3", ":", "/", "/", "/", "k">>
UriHttp == <<"h", "t", "t", "p", ":", "/", "/", "b", "/", "k">>

ArgPool == { ArgGet, ArgPut, ArgDel, ArgLocal, UriGood, UriNoKey, UriEmptyKey,
             UriNoBucket, UriHttp }

S3Scheme == <<"s", "3", ":", "/", "/">>

\* str.startswith
StartsWith(t, prefix) ==
    Len(t) >= Len(prefix) /\ SubSeq(t, 1, Len(prefix)) = prefix

\* The characters of t before the first "/", and t from that "/" on.
RECURSIVE UpToSlash(_)
UpToSlash(t) ==
    IF t = <<>> \/ Head(t) = "/" THEN <<>> ELSE <<Head(t)>> \o UpToSlash(Tail(t))

RECURSIVE LStripSlash(_)
LStripSlash(t) == IF t # <<>> /\ Head(t) = "/" THEN LStripSlash(Tail(t)) ELSE t

\* parse_s3: ValueError unless uri starts with "s3://" and urlparse gives a
\* non-empty netloc and a path that is non-empty once its leading "/" are off.
ParseS3(uri) ==
    IF ~StartsWith(uri, S3Scheme) THEN [ok |-> FALSE, bucket |-> <<>>, key |-> <<>>]
    ELSE LET rest == SubSeq(uri, Len(S3Scheme) + 1, Len(uri))
             netloc == UpToSlash(rest)
             path == SubSeq(rest, Len(netloc) + 1, Len(rest))
             key == LStripSlash(path)
         IN  IF netloc = <<>> \/ key = <<>>
             THEN [ok |-> FALSE, bucket |-> netloc, key |-> key]
             ELSE [ok |-> TRUE, bucket |-> netloc, key |-> key]

\* sys.argv: the program name, then up to MaxArgs arguments.
InitS3io ==
    /\ Fresh
    /\ frame \in { [fn |-> "s3io", argv |-> <<<<"s3io.py">>>> \o a, at |-> "main",
                    exit |-> -1, transfers |-> <<>>] :
                   a \in SeqsUpTo(ArgPool, MaxArgs) }

S3ioAt(where) == frame.fn = "s3io" /\ frame.at = where

\* sys.exit(code), or the interpreter ending on an uncaught exception (1).
S3ioExit(code) == frame' = [frame EXCEPT !.at = "exited", !.exit = code]

\* "if len(sys.argv) < 2: ... sys.exit(2)"
S3ioNoCommand ==
    /\ S3ioAt("main")
    /\ Len(frame.argv) < 2
    /\ S3ioExit(2)
    /\ UNCHANGED handlerVars

\* The else branch: "unknown command", sys.exit(2).
S3ioUnknownCommand ==
    /\ S3ioAt("main")
    /\ Len(frame.argv) >= 2
    /\ frame.argv[2] \notin { ArgGet, ArgPut }
    /\ S3ioExit(2)
    /\ UNCHANGED handlerVars

\* get or put with "len(sys.argv) != 4": usage, sys.exit(2).
S3ioWrongCount ==
    /\ S3ioAt("main")
    /\ Len(frame.argv) >= 2
    /\ frame.argv[2] \in { ArgGet, ArgPut }
    /\ Len(frame.argv) # 4
    /\ S3ioExit(2)
    /\ UNCHANGED handlerVars

\* The S3 argument of a get (argv[2]) or a put (argv[3]), 0-based as in the code.
S3Argument(argv) == IF argv[2] = ArgGet THEN argv[3] ELSE argv[4]
LocalArgument(argv) == IF argv[2] = ArgGet THEN argv[4] ELSE argv[3]

\* parse_s3 raises ValueError, which nothing catches: the interpreter prints
\* the traceback and ends with status 1.
S3ioParseRaises ==
    /\ S3ioAt("main")
    /\ Len(frame.argv) = 4
    /\ frame.argv[2] \in { ArgGet, ArgPut }
    /\ ~ParseS3(S3Argument(frame.argv)).ok
    /\ S3ioExit(1)
    /\ UNCHANGED handlerVars

\* s3.download_file or s3.upload_file is called; it returns, or raises.
S3ioTransfer ==
    /\ S3ioAt("main")
    /\ Len(frame.argv) = 4
    /\ frame.argv[2] \in { ArgGet, ArgPut }
    /\ LET p == ParseS3(S3Argument(frame.argv))
       IN  /\ p.ok
           /\ \E done \in BOOLEAN :
                 frame' = [frame EXCEPT
                    !.at = "exited",
                    !.exit = IF done THEN 0 ELSE 1,
                    !.transfers = Append(@,
                        [op |-> IF frame.argv[2] = ArgGet THEN "download_file"
                                ELSE "upload_file",
                         bucket |-> p.bucket, key |-> p.key,
                         local |-> LocalArgument(frame.argv)])]
    /\ UNCHANGED handlerVars

NextS3io ==
    \/ S3ioNoCommand
    \/ S3ioUnknownCommand
    \/ S3ioWrongCount
    \/ S3ioParseRaises
    \/ S3ioTransfer

SpecS3io == InitS3io /\ [][NextS3io]_vars

\* uri reads s3://bucket/key with a bucket and a key.
WellFormedS3Uri(uri) ==
    \E i \in (Len(S3Scheme) + 1)..(Len(uri) - 2) :
        /\ SubSeq(uri, 1, Len(S3Scheme)) = S3Scheme
        /\ \A j \in (Len(S3Scheme) + 1)..i : uri[j] # "/"
        /\ uri[i + 1] = "/"
        /\ \E j \in (i + 2)..Len(uri) : uri[j] # "/"

\* The command line is a bad input or usage: no command, an unknown command,
\* a wrong number of arguments for get or put, or an S3 argument that is not
\* a well-formed URI.
BadUsage(argv) ==
    \/ Len(argv) < 2
    \/ Len(argv) >= 2 /\ argv[2] \notin { ArgGet, ArgPut }
    \/ Len(argv) >= 2 /\ argv[2] \in { ArgGet, ArgPut } /\ Len(argv) # 4
    \/ Len(argv) = 4 /\ argv[2] \in { ArgGet, ArgPut }
          /\ ~WellFormedS3Uri(S3Argument(argv))

\* C13: on every bad input or usage s3io exits with code 2 and performs no
\* download or upload.
C13_BadUsageExits2 ==
    (S3ioAt("exited") /\ BadUsage(frame.argv)) =>
        /\ frame.exit = 2
        /\ frame.transfers = <<>>

\* The part of C13 that holds: on a bad input or usage no transfer is made
\* and the exit code is not 0; a transfer is made only on a good command line.
C13_NoTransferOnBadUsage ==
    S3ioAt("exited") =>
        /\ BadUsage(frame.argv) => frame.transfers = <<>> /\ frame.exit \in { 1, 2 }
        /\ ~BadUsage(frame.argv) => Len(frame.transfers) = 1

\* ================================================ first pass, rule by rule
\* A step of the segment loop that took a loaded segment.
CandidateStep == pc = "segs" /\ nraw' = nraw - 1 /\ lastStep'.verdict # "filtered"

\* The rules on the candidate lastStep', in the state before the step.
ClampApplies ==
    \/ lastStep'.ge0 < manifest[wi].start_sec + EPS
    \/ lastStep'.gs0 > manifest[wi].end_sec - EPS

ClampedStart == Max(lastStep'.gs0, manifest[wi].start_sec)
ClampedEnd == Min(lastStep'.ge0, manifest[wi].end_sec)

TextDupApplies ==
    \E k \in 1..Len(merged) :
        /\ merged[k].start >= ClampedStart - Max(OVERLAP_SEC, DEDUP_FLOOR)
        /\ SimilarMemo[merged[k].text, lastStep'.text]

TimeDupApplies == ClampedEnd <= last_end + EPS

TrimmedSpan == ClampedEnd - Max(ClampedStart, last_end)

\* The verdicts the rules allow, first rule first; a span of exactly
\* MIN_SEGMENT_SEC passes or fails the float comparison.
FirstRule ==
    IF ClampApplies THEN { "clamp" }
    ELSE IF TextDupApplies THEN { "dup_text" }
    ELSE IF TimeDupApplies THEN { "dup_time" }
    ELSE IF TrimmedSpan < MIN_SEGMENT_SEC THEN { "short" }
    ELSE IF TrimmedSpan = MIN_SEGMENT_SEC THEN { "short", "accept" }
    ELSE { "accept" }

\* C14: each candidate is decided by the first rule that applies, in the
\* order clamp discard, text duplicate, temporal duplicate, minimum duration
\* after left-trim; a duplicate adds 1 to dropped_overlap only, a short one
\* adds 1 to dropped_short only, and every rejection leaves the accepted
\* list, the next id and last_end as they were.
C14_RuleOrder ==
    [][ CandidateStep =>
          /\ lastStep'.verdict \in FirstRule
          /\ lastStep'.verdict \in { "dup_text", "dup_time" } =>
                /\ meta'.dropped_overlap = meta.dropped_overlap + 1
                /\ meta'.dropped_short = meta.dropped_short
          /\ lastStep'.verdict = "short" =>
                /\ meta'.dropped_short = meta.dropped_short + 1
                /\ meta'.dropped_overlap = meta.dropped_overlap
          /\ lastStep'.verdict = "clamp" => meta' = meta
          /\ lastStep'.verdict # "accept" =>
                /\ merged' = merged
                /\ seg_id' = seg_id
                /\ last_end' = last_end
          /\ lastStep'.verdict = "accept" =>
                /\ meta' = meta
                /\ Len(merged') = Len(merged) + 1
                /\ seg_id' = seg_id + 1 ]_vars

\* C14 witness: a candidate that is both a text duplicate and too short
\* after the trim was counted as a duplicate, not as short.
C14_Witness ==
    /\ pc = "segs"
    /\ lastStep.verdict = "dup_text"
    /\ lastStep.ge - Max(lastStep.clamped, last_end) < MIN_SEGMENT_SEC
    /\ meta.dropped_overlap = 1 /\ meta.dropped_short = 0

\* C15: at every acceptance of the first pass the accepted span [gs, ge] has
\* window.start <= gs < ge <= window.end for the window of its chunk,
\* gs >= last_end and ge > last_end as they were before; last_end becomes ge,
\* so it grows at each acceptance and never decreases during a merge.
C15_AcceptedSpan ==
    [][ /\ (CandidateStep /\ lastStep'.verdict = "accept") =>
              /\ manifest[wi].start_sec <= lastStep'.gs
              /\ lastStep'.gs < lastStep'.ge
              /\ lastStep'.ge <= manifest[wi].end_sec
              /\ lastStep'.gs >= last_end
              /\ lastStep'.gs >= lastStep'.gs0
              /\ lastStep'.ge > last_end
              /\ last_end' = lastStep'.ge
              /\ last_end' > last_end
              /\ merged'[Len(merged')].start = Round3(lastStep'.gs)
              /\ merged'[Len(merged')].end = Round3(lastStep'.ge)
        /\ last_end' >= last_end ]_vars

\* C15 witness: an acceptance whose start was trimmed up to the previous
\* end and whose end was clamped to the window.
C15_Witness ==
    /\ pc = "segs"
    /\ lastStep.verdict = "accept"
    /\ Len(merged) >= 2
    /\ lastStep.gs > lastStep.clamped
    /\ last_end = lastStep.ge

\* An acceptance whose end was cut back to the end of the window.
C15_EndClampReached ==
    /\ pc = "segs"
    /\ lastStep.verdict = "accept"
    /\ lastStep.ge < lastStep.ge0
    /\ lastStep.ge = manifest[wi].end_sec

\* ================================================= what the repair pass does
\* The span of merged[k] before rounding, from the segment it came from.
UnroundedEnd(k) ==
    Min(src[k].seg.end + manifest[src[k].w].start_sec, manifest[src[k].w].end_sec)

ClampedStartOf(k) ==
    Max(src[k].seg.start + manifest[src[k].w].start_sec, manifest[src[k].w].start_sec)

\* merged[k] was left-trimmed to the end of merged[k - 1], and that end is
\* not a whole millisecond: the two are rounded separately.
TrimmedOffGrid(k) ==
    /\ k >= 2
    /\ ClampedStartOf(k) < UnroundedEnd(k - 1)
    /\ UnroundedEnd(k - 1) % 1000 # 0

FirstPassOutOfOrder(k) == k >= 2 /\ merged[k].start < merged[k - 1].end

RepairOnlyDropsTies ==
    (pc = "repair" /\ ri' = ri + 1) =>
        \/ /\ fixed' = fixed
           /\ merged[ri].end - merged[ri].start = MIN_SEGMENT_SEC
        \/ /\ fixed' = Append(fixed, [merged[ri] EXCEPT !.id = Len(fixed)])
           /\ merged[ri].start >= last

MaxHours == 2

\* A time in seconds is its whole seconds and its microseconds, so that
\* hours fit: s = sec + usec / 1000000.
StampTimes ==
    [sec : { h * 3600 + m * 60 + x : h \in (0..MaxHours) \cup { 100 },
                                     m \in { 0, 1, 59 }, x \in { 0, 1, 59 } },
     usec : { 0, 400, 500, 1500, 123456, 999499, 999500, 999600 }]

\* int(round(s * 1000))
MillisOf(t) == t.sec * 1000 + ToMillis(t.usec)

InitStamp ==
    /\ Fresh
    /\ frame \in { [fn |-> "stamp", s |-> t, vtt |-> "", srt |-> ""] :
                   t \in StampTimes }

StampAt == frame.fn = "stamp"

\* _sec_to_hhmmss_msec_vtt(s)
CallStampVtt ==
    /\ StampAt /\ frame.vtt = ""
    /\ frame' = [frame EXCEPT !.vtt = StampVtt(MillisOf(frame.s))]
    /\ UNCHANGED handlerVars

\* _sec_to_hhmmss_msec_srt(s)
CallStampSrt ==
    /\ StampAt /\ frame.srt = ""
    /\ frame' = [frame EXCEPT !.srt = StampSrt(MillisOf(frame.s))]
    /\ UNCHANGED handlerVars

NextStamp == CallStampVtt \/ CallStampSrt

SpecStamp == InitStamp /\ [][NextStamp]_vars

\* T is s rounded to the nearest millisecond.
NearestMillis(t, T) ==
    LET off == (T - t.sec * 1000) * 1000 - t.usec
    IN  off >= -500 /\ off <= 500

\* n in decimal, at least two (three) digits, zero-padded.
TwoDigits(n) == IF n < 10 THEN "0" \o ToString(n) ELSE ToString(n)
ThreeDigits(n) ==
    IF n < 10 THEN "00" \o ToString(n)
    ELSE IF n < 100 THEN "0" \o ToString(n) ELSE ToString(n)

StampOf(H, M, S, m, sep) ==
    TwoDigits(H) \o ":" \o TwoDigits(M) \o ":" \o TwoDigits(S) \o sep \o ThreeDigits(m)

\* C17: for s >= 0 and T = s rounded to the nearest millisecond, both
\* formatters emit HH:MM:SS and mmm, zero-padded, of fields with
\* H*3600000 + M*60000 + S*1000 + m = T, 0 <= M < 60, 0 <= S < 60 and
\* 0 <= m < 1000, and they differ only in the separator, "." or ",".
C17_TimestampFields ==
    (StampAt /\ frame.vtt # "" /\ frame.srt # "") =>
        \E T \in { MillisOf(frame.s) - 1, MillisOf(frame.s), MillisOf(frame.s) + 1 } :
            /\ NearestMillis(frame.s, T)
            /\ LET H == T \div 3600000
                   M == (T \div 60000) % 60
                   S == (T \div 1000) % 60
                   m == T % 1000
               IN  /\ H * 3600000 + M * 60000 + S * 1000 + m = T
                   /\ frame.vtt = StampOf(H, M, S, m, ".")
                   /\ frame.srt = StampOf(H, M, S, m, ",")

\* C17 witness: 100:59:59.9996 s, which rounds up into the next hour, in
\* both formats.
C17_Witness ==
    /\ StampAt
    /\ frame.s = [sec |-> 363599, usec |-> 999600]
    /\ frame.vtt = "101:00:00.000"
    /\ frame.srt = "101:00:00,000"

\* ===================================================== the look-back scan
\* Where the backward scan from the end of mg stops when no text is
\* similar: the last k with k = 0 or mg[k].start < gs - DEDUP_BACK_WINDOW.
RECURSIVE ScanStop(_, _, _)
ScanStop(mg, k, gs) ==
    IF k >= 1 /\ mg[k].start >= gs - DEDUP_BACK_WINDOW
    THEN ScanStop(mg, k - 1, gs)
    ELSE k

SortedByStart(mg) ==
    \A i \in 1..Len(mg) : \A j \in 1..Len(mg) : i < j => mg[i].start <= mg[j].start

\* C18: at every step of the first pass the accepted list is sorted by
\* start; where the backward scan stops, no earlier accepted segment has
\* start >= gs - lookback, and the scan's verdict is that of comparing the
\* candidate with every accepted segment whose start >= gs - lookback.
C18_EarlyExitSound ==
    /\ [](SortedByStart(merged))
    /\ [][ (CandidateStep /\ ~ClampApplies) =>
              /\ \A j \in 1..ScanStop(merged, Len(merged), ClampedStart) :
                     merged[j].start < ClampedStart - DEDUP_BACK_WINDOW
              /\ IsTextDup(merged, ClampedStart, lastStep'.text) <=> TextDupApplies
              /\ lastStep'.verdict = "dup_text" <=> TextDupApplies ]_vars

\* C18 witness: a candidate was found to be a duplicate of an accepted
\* segment that is not the last one, the scan having passed over a later
\* accepted segment with a different text.
C18_Witness ==
    /\ pc = "segs"
    /\ lastStep.verdict = "dup_text"
    /\ Len(merged) >= 2
    /\ ~Similar(merged[Len(merged)].text, lastStep.text)
    /\ merged[Len(merged)].start >= lastStep.clamped - DEDUP_BACK_WINDOW

\* A first-pass state where the scan stopped early: an accepted segment
\* lies before the look-back window of the candidate just decided.
C18_EarlyStopReached ==
    /\ pc = "segs"
    /\ lastStep.verdict \in { "accept", "dup_time", "short" }
    /\ Len(merged) >= 2
    /\ merged[1].start < lastStep.clamped - DEDUP_BACK_WINDOW

\* ===================================== _guess_chunk_key on its own, by steps
\* The chunk indices tried: one and several digits, five digits and more
\* (padding adds nothing), and a negative one.
GuessIndices == { 0, 7, 12345, 123456, -1 }

\* All orders of a finite set, as sequences without repetition.
Orders(S) ==
    { q \in [1..Cardinality(S) -> S] : \A i, j \in 1..Cardinality(S) : q[i] = q[j] => i = j }

\* The views of the store around an index, with or without the result of
\* another chunk beside it.
SiblingViews(job, index) ==
    { [st EXCEPT !.objects = @ \cup extra] :
        st \in StoreViews(job, index),
        extra \in { {}, { <<"chunks", job, "99999", "out.json">> } } }

InitGuess ==
    /\ Fresh
    /\ frame \in { [fn |-> "guess", index |-> n, store |-> st, at |-> "exact", i |-> 1,
                    cps |-> <<>>, outcome |-> "", key |-> <<>>, via |-> ""] :
                   n \in GuessIndices,
                   st \in UNION { SiblingViews(JobId, x) : x \in GuessIndices } }
    /\ frame.store \in SiblingViews(JobId, frame.index)

GuessAt(at) == frame.fn = "guess" /\ frame.at = at

GuessDone(outcome, key, via) ==
    frame' = [frame EXCEPT !.at = "done", !.outcome = outcome, !.key = key, !.via = via]

\* "for k in exact: if _s3_key_exists(results_bucket, k): return k"
GuessExact ==
    /\ GuessAt("exact")
    /\ LET k == ExactKeys(JobId, frame.index)[frame.i]
           e == S3KeyExists(frame.store, k)
       IN  IF e = "raise" THEN GuessDone("raise", <<>>, "exact")
           ELSE IF e = "true" THEN GuessDone("found", k, "exact")
           ELSE IF frame.i < Len(ExactKeys(JobId, frame.index))
                THEN frame' = [frame EXCEPT !.i = @ + 1]
                ELSE frame' = [frame EXCEPT !.at = "list"]
    /\ UNCHANGED handlerVars

\* "resp = S3.list_objects_v2(...)": the listing fails, or gives the
\* immediate sub-prefixes in the order of the service.
GuessList ==
    /\ GuessAt("list")
    /\ IF frame.store.listDenied THEN GuessDone("raise", <<>>, "list")
       ELSE \E q \in Orders(CommonPrefixes(frame.store, JobId)) :
               frame' = [frame EXCEPT !.at = "enum", !.i = 1, !.cps = q]
    /\ UNCHANGED handlerVars

\* One turn of "for cp in resp.get("CommonPrefixes", [])".
GuessEnum ==
    /\ GuessAt("enum")
    /\ frame.i <= Len(frame.cps)
    /\ LET pfx == frame.cps[frame.i]
           leaf == pfx[Len(pfx)]
           k == Append(pfx, "out.json")
           e == S3KeyExists(frame.store, k)
       IN  IF leaf = Pad5(frame.index) \/ leaf = ToString(frame.index)
           THEN IF e = "raise" THEN GuessDone("raise", <<>>, "enum")
                ELSE IF e = "true" THEN GuessDone("found", k, "enum")
                ELSE frame' = [frame EXCEPT !.i = @ + 1]
           ELSE frame' = [frame EXCEPT !.i = @ + 1]
    /\ UNCHANGED handlerVars

\* "return None"
GuessNone ==
    /\ GuessAt("enum")
    /\ frame.i > Len(frame.cps)
    /\ GuessDone("none", <<>>, "end")
    /\ UNCHANGED handlerVars

NextGuess == GuessExact \/ GuessList \/ GuessEnum \/ GuessNone

SpecGuess == InitGuess /\ [][NextGuess]_vars

\* What the claim lets the call give on a store: the padded key when HEAD
\* finds it, else the unpadded key when HEAD finds it, else nothing; a HEAD
\* or a listing that fails otherwise ends the call with its error (C5).
Discovery(store, index) ==
    LET p == PaddedKey(JobId, index)
        u == UnpaddedKey(JobId, index)
    IN  IF p \in store.denied THEN [outcome |-> "raise", key |-> <<>>]
        ELSE IF p \in store.objects THEN [outcome |-> "found", key |-> p]
        ELSE IF u \in store.denied THEN [outcome |-> "raise", key |-> <<>>]
        ELSE IF u \in store.objects THEN [outcome |-> "found", key |-> u]
        ELSE IF store.listDenied THEN [outcome |-> "raise", key |-> <<>>]
        ELSE [outcome |-> "none", key |-> <<>>]

\* C19: on an unchanged store _guess_chunk_key returns the zero-padded key
\* when it exists, otherwise the unpadded key when it exists, otherwise
\* None; the enumeration of sibling prefixes never returns a key, and the
\* root-level chunks/{job}/out.json is never returned.
C19_Discovery ==
    GuessAt("done") =>
        /\ [outcome |-> frame.outcome, key |-> frame.key] = Discovery(frame.store, frame.index)
        /\ [outcome |-> frame.outcome, key |-> frame.key]
               = GuessChunkKey(frame.store, JobId, frame.index)
        /\ frame.outcome = "found" =>
              /\ frame.via = "exact"
              /\ frame.key # RootKey(JobId)
              /\ frame.key \in frame.store.objects

\* C19 witness: both canonical keys and the root-level key exist, and the
\* padded one was returned.
C19_Witness ==
    /\ GuessAt("done")
    /\ frame.index = 7
    /\ { PaddedKey(JobId, 7), UnpaddedKey(JobId, 7), RootKey(JobId) } \subseteq frame.store.objects
    /\ frame.outcome = "found"
    /\ frame.key = PaddedKey(JobId, 7)

\* The enumeration probed the out.json under a listed sub-prefix of the
\* index, did not find it, and the call returned None beside a root-level
\* out.json.
C19_FallbackReached ==
    /\ GuessAt("done")
    /\ frame.via = "end"
    /\ frame.cps # <<>>
    /\ RootKey(JobId) \in frame.store.objects
    /\ frame.outcome = "none"

\* ======================================================= counter accounting
\* C20: at the end of every merge, final segments + dropped_short +
\* dropped_overlap is at most the number of valid raw segments loaded from
\* the processed chunks, and what is missing is exactly the candidates
\* discarded by the window clamp plus the first-pass segments dropped by
\* the repair pass, which no counter records; during the first pass the
\* same holds of the accepted list without the repair drops.
C20_CounterAccounting ==
    /\ pc \in { "window", "load", "segs" } =>
          tally.valid = Len(merged) + meta.dropped_short + meta.dropped_overlap + tally.clamp
    /\ pc = "repair" =>
          /\ tally.repair = (ri - 1) - Len(fixed)
          /\ tally.valid = Len(merged) + meta.dropped_short + meta.dropped_overlap + tally.clamp
    /\ MergeReturned =>
          /\ Len(fixed) + meta.dropped_short + meta.dropped_overlap <= tally.valid
          /\ tally.valid - (Len(fixed) + meta.dropped_short + meta.dropped_overlap)
                = tally.clamp + tally.repair
          /\ tally.repair = Len(merged) - Len(fixed)

\* C20 witness: a merge that ended with a clamp discard and a repair drop,
\* so that the counters and the final list account for fewer segments than
\* were loaded.
C20_Witness ==
    /\ MergeReturned
    /\ tally.clamp >= 1
    /\ tally.repair >= 1
    /\ Len(fixed) + meta.dropped_short + meta.dropped_overlap < tally.valid

\* ================================================ order of the side effects
\* The calls of handler before step 5 whose failure the claim names: the
\* manifest read and parse, the merge (discovery and loading of a chunk
\* result) and the artifact writes.
UpstreamCalls ==
    { "_read_s3_text", "_parse_manifest_jsonl", "_guess_chunk_key",
      "_load_chunk_segments", "_put_s3_bytes" }

\* C21: the COMPLETED status update and the notification are issued only
\* after the merge has finished and the four artifacts json, txt, vtt, srt
\* are written, the status update before the notification; when the
\* manifest read, the merge or an artifact write fails, neither is issued.
C21_SideEffectsDownstream ==
    /\ [](effects # <<>> => (MergeReturned /\ written = Artifacts))
    /\ [](effects \in { <<>>, <<"status:COMPLETED">>, <<"notify:COMPLETED">>,
                        <<"status:COMPLETED", "notify:COMPLETED">> })
    /\ []((result.kind = "raised" /\ result.from \in UpstreamCalls) => effects = <<>>)
    /\ [][ effects' # effects =>
              /\ MergeReturned /\ written = Artifacts /\ written' = written
              /\ \E e \in { "status:COMPLETED", "notify:COMPLETED" } :
                    /\ effects' = Append(effects, e)
                    /\ e = "status:COMPLETED" => (effects = <<>> /\ pc = "put")
                    /\ e = "notify:COMPLETED" => pc = "notify" ]_vars

\* C21 witness: a run that merged a segment, wrote the four artifacts, then
\* updated the status, then notified, and returned.
C21_Witness ==
    /\ pc = "done"
    /\ fixed # <<>>
    /\ written = Artifacts
    /\ effects = <<"status:COMPLETED", "notify:COMPLETED">>

\* The write of the last artifact failed after three were written, and no
\* side effect was issued.
C21_WriteFailureReached ==
    /\ result.kind = "raised" /\ result.from = "_put_s3_bytes"
    /\ Len(written) = 3
    /\ effects = <<>>

====
